---- MODULE Spec2Model ----
(***************************************************************************)
(* Model of sync_highlights.py: the Kindle "My Clippings.txt" parser, the  *)
(* content-derived highlight id, the per-book Markdown renderer and the    *)
(* persisted sync state (imported_ids) of one or more runs of main().      *)
(*                                                                         *)
(* Strings are sequences of one-character strings, so that concatenation,  *)
(* stripping and formatting are computed, not assumed.  Optional[int] and  *)
(* Optional[datetime] hold None or a natural number.                       *)
(***************************************************************************)
EXTENDS Integers, Sequences, FiniteSets, TLC

VARIABLES
    call,        \* pure-function specifications: the arguments of the call
    ret,         \* pure-function specifications: [done, val] of the call
    log,         \* the entries of My Clippings.txt (unchanged by the program)
    disk,        \* content of STATE_FILE
    state,       \* main(): the in-memory state dict
    books,       \* main(): the dict returned by parse_clippings, in insertion order
    idx,         \* main(): number of books the for loop has processed
    pc,          \* main(): position in the run
    hist         \* observations of the current and the previous run

pureVars == <<call, ret>>
mainVars == <<log, disk, state, books, idx, pc, hist>>
vars == <<call, ret, log, disk, state, books, idx, pc, hist>>

----------------------------------------------------------------------------
(* Bounds of the model *)

\* longest input log, in entries
MaxEntries == 3
\* highlights of one book handed to sorted() / generate_markdown
MaxHighlights == 3

----------------------------------------------------------------------------
(* Optional values and string helpers *)

\* Optional[...] = None (no page / location / date parsed)
None == -1

\* the sentinel of sort_key for an absent page or location_start
SortSentinel == 999999

\* datetime.min, the sentinel of sort_key for an absent date; datetimes are
\* counted in seconds from it
DateTimeMin == 0

Digit(d) == <<"0", "1", "2", "3", "4", "5", "6", "7", "8", "9">>[d + 1]

\* str(n) of a non-negative int
RECURSIVE IntStr(_)
IntStr(n) ==
    IF n < 10 THEN <<Digit(n)>> ELSE IntStr(n \div 10) \o <<Digit(n % 10)>>

\* f"{v}" of an Optional[int]
OptStr(v) == IF v = None THEN <<"N", "o", "n", "e">> ELSE IntStr(v)

IsSpace(c) == c = " "

RECURSIVE LStrip(_)
LStrip(s) == IF s # <<>> /\ IsSpace(Head(s)) THEN LStrip(Tail(s)) ELSE s

RECURSIVE RStrip(_)
RStrip(s) ==
    IF s # <<>> /\ IsSpace(s[Len(s)]) THEN RStrip(SubSeq(s, 1, Len(s) - 1)) ELSE s

\* str.strip()
Strip(s) == RStrip(LStrip(s))

\* all sequences over S of length at most n
SeqsUpTo(S, n) == UNION {[1..k -> S] : k \in 0..n}

\* the set of elements of a sequence
Range(s) == {s[i] : i \in DOMAIN s}

----------------------------------------------------------------------------
(* Highlight: identity and sort key *)

\* the serialization handed to the hash: f"{self.text}{self.page}{self.location_start}"
Content(text, page, location_start) ==
    text \o OptStr(page) \o OptStr(location_start)

\* hashlib.md5(content.encode()).hexdigest()[:12].  The digest is taken as
\* collision free on the bounded inputs: equal contents give equal ids and
\* different contents different ids.
Md5Hex12(content) == <<"md5">> \o content

\* Highlight.__post_init__
HighlightId(text, page, location_start) ==
    Md5Hex12(Content(text, page, location_start))

\* Highlight(text=..., page=..., ...), highlight_id set by __post_init__
Highlight(text, page, location_start, location_end, date_added, is_note) ==
    [text |-> text, page |-> page, location_start |-> location_start,
     location_end |-> location_end, date_added |-> date_added,
     is_note |-> is_note,
     highlight_id |-> HighlightId(text, page, location_start)]

\* Highlight.sort_key
sort_key(h) ==
    <<IF h.page # None THEN h.page ELSE SortSentinel,
      IF h.location_start # None THEN h.location_start ELSE SortSentinel,
      IF h.date_added # None THEN h.date_added ELSE DateTimeMin>>

\* tuple comparison a < b of two sort keys
KeyLess(a, b) ==
    \/ a[1] < b[1]
    \/ a[1] = b[1] /\ a[2] < b[2]
    \/ a[1] = b[1] /\ a[2] = b[2] /\ a[3] < b[3]

\* insert h behind every element whose key is not greater (stable)
RECURSIVE InsertByKey(_, _)
InsertByKey(h, s) ==
    IF s = <<>> THEN <<h>>
    ELSE IF KeyLess(sort_key(h), sort_key(Head(s))) THEN <<h>> \o s
    ELSE <<Head(s)>> \o InsertByKey(h, Tail(s))

RECURSIVE SortedPrefix(_, _)
SortedPrefix(s, n) ==
    IF n = 0 THEN <<>> ELSE InsertByKey(s[n], SortedPrefix(s, n - 1))

\* sorted(highlights, key=lambda h: h.sort_key): stable, ascending
SortedHighlights(highlights) == SortedPrefix(highlights, Len(highlights))

----------------------------------------------------------------------------
(* Renderer *)

\* the reference label of one entry: "p. N", "loc. S", "loc. S-E", "no location"
\* (the code tests the fields for truth, so 0 counts as absent here)
Ref(h) ==
    IF h.page # None /\ h.page # 0
    THEN [kind |-> "p.", a |-> h.page, b |-> None]
    ELSE IF h.location_start # None /\ h.location_start # 0
    THEN IF h.location_end # None /\ h.location_end # 0
            /\ h.location_end # h.location_start
         THEN [kind |-> "loc.", a |-> h.location_start, b |-> h.location_end]
         ELSE [kind |-> "loc.", a |-> h.location_start, b |-> None]
    ELSE [kind |-> "no location", a |-> None, b |-> None]

\* one "- **ref** - ..." line of the document
EntryLine(h) == [ref |-> Ref(h), note |-> h.is_note, text |-> h.text]

\* a renderer that forgets the dedup filter
NewHighlightsUnfiltered(sorted_highlights, existing_ids) == sorted_highlights

\* highlights whose id is not in existing_ids, in sorted order
NewHighlights(sorted_highlights, existing_ids) ==
    SelectSeq(sorted_highlights, LAMBDA h : h.highlight_id \notin existing_ids)

\* if not new_highlights and existing_ids: return None, []
Suppressed(new_highlights, existing_ids) ==
    new_highlights = <<>> /\ existing_ids # {}

\* generate_markdown(book, existing_ids) -> (markdown, new_ids); markdown is
\* None (is_none) or the header fields and the entry lines of the document
generate_markdown(book, existing_ids) ==
    LET sorted_highlights == SortedHighlights(book.highlights)
        new_highlights == NewHighlights(sorted_highlights, existing_ids)
    IN  IF Suppressed(new_highlights, existing_ids)
        THEN [markdown |-> [is_none |-> TRUE, title |-> <<>>, author |-> <<>>,
                            entries |-> <<>>],
              new_ids |-> <<>>]
        ELSE [markdown |-> [is_none |-> FALSE, title |-> book.title,
                            author |-> book.author,
                            entries |-> [i \in DOMAIN sorted_highlights |->
                                            EntryLine(sorted_highlights[i])]],
              new_ids |-> [i \in DOMAIN new_highlights |->
                              new_highlights[i].highlight_id]]

----------------------------------------------------------------------------
(* Parsing *)

\* index of the first c in s, 0 when there is none
RECURSIVE IndexFrom(_, _, _)
IndexFrom(s, c, i) ==
    IF i > Len(s) THEN 0 ELSE IF s[i] = c THEN i ELSE IndexFrom(s, c, i + 1)

\* the tail  \s*\(([^)]+)\)\s*$  of the header pattern, matched against rest:
\* [ok, author] with author the text of group 2
MatchAuthorTail(rest) ==
    LET r == LStrip(rest)
        close == IndexFrom(r, ")", 2)
    IN  IF r # <<>> /\ Head(r) = "(" /\ close > 2
           /\ Strip(SubSeq(r, close + 1, Len(r))) = <<>>
        THEN [ok |-> TRUE, author |-> SubSeq(r, 2, close - 1)]
        ELSE [ok |-> FALSE, author |-> <<>>]

\* the lengths the lazy group 1 (.+?) can take, the shortest is the match
TitleLengths(line) ==
    {n \in 1..Len(line) : MatchAuthorTail(SubSeq(line, n + 1, Len(line))).ok}

Unknown == <<"U", "n", "k", "n", "o", "w", "n">>

\* parse_title_author(line) -> (title, author)
parse_title_author(line) ==
    IF TitleLengths(line) # {}
    THEN LET n == CHOOSE k \in TitleLengths(line) :
                      \A m \in TitleLengths(line) : k <= m
         IN  [title |-> Strip(SubSeq(line, 1, n)),
              author |-> Strip(MatchAuthorTail(SubSeq(line, n + 1, Len(line))).author)]
    ELSE [title |-> Strip(line), author |-> Unknown]

\* parse_metadata(line) -> None (is_none) or the dict of fields.  The
\* metadata line is held as its leading-marker flag and the values its
\* "page", "location", "Added on" and note/bookmark tokens carry.
parse_metadata(meta) ==
    IF ~meta.dash
    THEN [is_none |-> TRUE, page |-> None, location_start |-> None,
          location_end |-> None, date |-> None, is_note |-> FALSE]
    ELSE [is_none |-> FALSE, page |-> meta.page,
          location_start |-> meta.location_start,
          location_end |-> meta.location_end, date |-> meta.date,
          is_note |-> meta.is_note]

\* book_key = f"{title}|{author}"
BookKey(title, author) == title \o <<"|">> \o author

\* position of the book stored under key in the dict, 0 when absent
RECURSIVE KeyIndex(_, _, _)
KeyIndex(bks, key, i) ==
    IF i > Len(bks) THEN 0
    ELSE IF bks[i].key = key THEN i ELSE KeyIndex(bks, key, i + 1)

\* one pass of the for loop of parse_clippings over a stripped entry.  An
\* entry is [nlines, header, meta, body]: its number of lines, lines[0],
\* lines[1] and '\n'.join(lines[3:]).strip().
ParseEntry(bks, entry) ==
    IF entry.nlines < 3 THEN bks
    ELSE LET ta == parse_title_author(Strip(entry.header))
             highlight_meta == parse_metadata(entry.meta)
             text == IF entry.nlines > 3 THEN Strip(entry.body) ELSE <<>>
             book_key == BookKey(ta.title, ta.author)
             at == KeyIndex(bks, book_key, 1)
             highlight == Highlight(text, highlight_meta.page,
                                    highlight_meta.location_start,
                                    highlight_meta.location_end,
                                    highlight_meta.date,
                                    highlight_meta.is_note)
         IN  IF highlight_meta.is_none THEN bks
             ELSE IF text = <<>> THEN bks
             ELSE IF at = 0
             THEN Append(bks, [key |-> book_key, title |-> ta.title,
                               author |-> ta.author,
                               highlights |-> <<highlight>>])
             ELSE [bks EXCEPT ![at].highlights = Append(@, highlight)]

RECURSIVE ParseEntries(_, _)
ParseEntries(entries, n) ==
    IF n = 0 THEN <<>> ELSE ParseEntry(ParseEntries(entries, n - 1), entries[n])

\* parse_clippings on an existing, readable file holding these entries: the
\* books dict as the sequence of its values in insertion order
parse_clippings(entries) == ParseEntries(entries, Len(entries))

----------------------------------------------------------------------------
(* Values shared by the specifications *)

NotCalled == [done |-> FALSE, val |-> <<>>]
Returned(v) == [done |-> TRUE, val |-> v]

\* the state dict main() holds before load_state() has run
NoState == [kind |-> "unset", ids |-> <<>>]

\* what one run of main() did
NoRun ==
    [input |-> "none", loaded_from |-> "none", loaded |-> NoState,
     saves |-> 0, rendered |-> {}, failed |-> {}, docs |-> <<>>,
     raised |-> "none", exit |-> "none",
     last |-> [outcome |-> "none", before |-> NoState]]

\* main() is not running (the pure-function specifications)
MainOff ==
    /\ log = <<>>
    /\ disk = [kind |-> "missing", ids |-> <<>>]
    /\ state = NoState
    /\ books = <<>>
    /\ idx = 0
    /\ pc = "off"
    /\ hist = [cur |-> NoRun, prev |-> NoRun]

----------------------------------------------------------------------------
(* Specification SpecId: Highlight.__post_init__ on two highlights *)

IdTexts == {<<"a">>, <<"a", "1">>}
IdPages == {None, 1, 12}
IdLocations == {None, 3, 23}

IdFields ==
    [text : IdTexts, page : IdPages, location_start : IdLocations,
     location_end : {None, 30}, date_added : {None, 5}, is_note : BOOLEAN]

MakeHighlight(f) ==
    Highlight(f.text, f.page, f.location_start, f.location_end,
              f.date_added, f.is_note)

IdInit ==
    /\ call \in [a : IdFields, b : IdFields]
    /\ ret = NotCalled
    /\ MainOff

\* construct both highlights; keep the serialization each id was made from
Construct ==
    /\ ~ret.done
    /\ ret' = Returned([a |-> MakeHighlight(call.a), b |-> MakeHighlight(call.b),
                        content_a |-> Content(call.a.text, call.a.page,
                                              call.a.location_start),
                        content_b |-> Content(call.b.text, call.b.page,
                                              call.b.location_start)])
    /\ UNCHANGED <<call, log, disk, state, books, idx, pc, hist>>

IdNext == Construct

SpecId == IdInit /\ [][IdNext]_vars

----------------------------------------------------------------------------
(* Specification SpecSort: sorted(book.highlights, key=sort_key) *)

SortText == <<"x">>
SortPages == {None, 5, 1000000}
SortLocations == {None, 10}
SortDates == {None, 0, 7}

SortHighlights ==
    {Highlight(SortText, p, l, None, d, FALSE) :
        p \in SortPages, l \in SortLocations, d \in SortDates}

SortInit ==
    /\ call \in SeqsUpTo(SortHighlights, MaxHighlights)
    /\ ret = NotCalled
    /\ MainOff

Sort ==
    /\ ~ret.done
    /\ ret' = Returned(SortedHighlights(call))
    /\ UNCHANGED <<call, log, disk, state, books, idx, pc, hist>>

SortNext == Sort

SpecSort == SortInit /\ [][SortNext]_vars

----------------------------------------------------------------------------
(* Specification SpecRender: generate_markdown(book, existing_ids) *)

RenderHighlights ==
    {Highlight(<<"x">>, 5, None, None, None, FALSE),
     Highlight(<<"x">>, 5, None, None, 7, TRUE),
     Highlight(<<"y">>, None, 10, 12, None, FALSE),
     Highlight(<<"z">>, 0, 0, None, None, FALSE)}

ForeignId == HighlightId(<<"w">>, 1, 1)

RenderInit ==
    /\ \E hs \in SeqsUpTo(RenderHighlights, MaxHighlights) :
       \E ex \in SUBSET ({hs[i].highlight_id : i \in DOMAIN hs} \cup {ForeignId}) :
          call = [book |-> [title |-> <<"T">>, author |-> Unknown,
                            highlights |-> hs],
                  existing_ids |-> ex]
    /\ ret = NotCalled
    /\ MainOff

Render ==
    /\ ~ret.done
    /\ ret' = Returned(generate_markdown(call.book, call.existing_ids))
    /\ UNCHANGED <<call, log, disk, state, books, idx, pc, hist>>

RenderNext == Render

SpecRender == RenderInit /\ [][RenderNext]_vars

----------------------------------------------------------------------------
(* Specification SpecParse: parse_clippings on a log of entries *)

\* "- Your Highlight on page <page> | location <s>-<e> | Added on <date>"
MetaLine(page, location_start, location_end, date, is_note) ==
    [dash |-> TRUE, page |-> page, location_start |-> location_start,
     location_end |-> location_end, date |-> date, is_note |-> is_note]

\* a second line that does not start with "-"
NoDashLine ==
    [dash |-> FALSE, page |-> 1, location_start |-> None,
     location_end |-> None, date |-> None, is_note |-> FALSE]

\* a well-formed four-line entry
Entry(header, meta, body) ==
    [nlines |-> 4, header |-> header, meta |-> meta, body |-> body]

ParseHeaders ==
    {<<"A", "|", "B", " ", "(", "C", ")">>,
     <<"A", " ", "(", "B", "|", "C", ")">>,
     <<"A", " ", "(", "C", ")">>,
     <<"A">>}

ParseEntrySet ==
    {Entry(h, MetaLine(1, None, None, None, FALSE), <<"x">>) : h \in ParseHeaders}
    \cup {Entry(<<"A">>, MetaLine(None, 7, 9, 5, TRUE), <<"y">>),
          \* header and metadata only
          [nlines |-> 2, header |-> <<"Z">>,
           meta |-> MetaLine(1, None, None, None, FALSE), body |-> <<>>],
          \* no leading marker
          Entry(<<"Z">>, NoDashLine, <<"x">>),
          \* a body of blanks
          Entry(<<"Z">>, MetaLine(1, None, None, None, FALSE), <<" ">>)}

ParseInit ==
    /\ call \in SeqsUpTo(ParseEntrySet, MaxEntries)
    /\ ret = NotCalled
    /\ MainOff

Parse ==
    /\ ~ret.done
    /\ ret' = Returned(parse_clippings(call))
    /\ UNCHANGED <<call, log, disk, state, books, idx, pc, hist>>

ParseNext == Parse

SpecParse == ParseInit /\ [][ParseNext]_vars

----------------------------------------------------------------------------
(* Sync state and the steps of main() *)

\* {"imported_ids": []}
EmptyState == [kind |-> "ok", ids |-> <<>>]

\* load_state().  The file is missing, is not valid JSON ("corrupt"), cannot
\* be read as text ("undecodable": read_text raises), or holds JSON: a dict
\* with a list under "imported_ids" ("ok"), a dict without that key
\* ("nokey"), or a value that is no dict ("notdict").  Only
\* json.JSONDecodeError is caught.
load_state(file) ==
    CASE file.kind = "missing" -> [raised |-> FALSE, state |-> EmptyState]
      [] file.kind = "corrupt" -> [raised |-> FALSE, state |-> EmptyState]
      [] file.kind = "undecodable" -> [raised |-> TRUE, state |-> NoState]
      [] OTHER -> [raised |-> FALSE,
                   state |-> [kind |-> file.kind, ids |-> file.ids]]

\* set(state.get("imported_ids", []))
ExistingIds(st) == IF st.kind = "ok" THEN Range(st.ids) ELSE {}

\* a process_book that overwrites the recorded ids with the new ones
ExtendReplacing(ids, new_ids) == new_ids

\* a process_book that forgets to record the new ids
ExtendForgetting(ids, new_ids) == ids

\* state["imported_ids"].extend(new_ids)
Extend(ids, new_ids) == ids \o new_ids

\* save_state(state): json.dumps of the dict, read back by json.loads
save_state(st) == [kind |-> st.kind, ids |-> st.ids]

Ended == pc \in {"done", "exit1", "raised"}

\* find_clippings() and the test of its result in main()
FindClippings ==
    /\ pc = "start"
    /\ \E found \in BOOLEAN :
          IF found
          THEN /\ pc' = "load"
               /\ UNCHANGED hist
          ELSE /\ pc' = "exit1"
               /\ hist' = [hist EXCEPT !.cur.input = "notfound",
                                        !.cur.exit = "1"]
    /\ UNCHANGED <<call, ret, log, disk, state, books, idx>>

\* state = load_state() and the logging call that reads state.get(...)
LoadState ==
    /\ pc = "load"
    /\ LET r == load_state(disk)
           h == [hist EXCEPT !.cur.loaded_from = disk.kind]
       IN  IF r.raised
           THEN /\ pc' = "raised"
                /\ hist' = [h EXCEPT !.cur.raised = "load_state",
                                     !.cur.exit = "traceback"]
                /\ UNCHANGED state
           ELSE IF r.state.kind = "notdict"
           THEN /\ pc' = "raised"
                /\ hist' = [h EXCEPT !.cur.raised = "state.get",
                                     !.cur.loaded = r.state,
                                     !.cur.exit = "traceback"]
                /\ state' = r.state
           ELSE /\ pc' = "parse"
                /\ hist' = [h EXCEPT !.cur.loaded = r.state]
                /\ state' = r.state
    /\ UNCHANGED <<call, ret, log, disk, books, idx>>

\* books = parse_clippings(clippings_path): the file is there and readable,
\* is gone since find_clippings saw it (returns {}), or read_text raises
ParseClippings ==
    /\ pc = "parse"
    /\ \E file \in {"ok", "missing", "unreadable"} :
          CASE file = "ok" ->
                 /\ books' = parse_clippings(log)
                 /\ pc' = "loop"
                 /\ hist' = [hist EXCEPT !.cur.input = "ok"]
            [] file = "missing" ->
                 /\ books' = <<>>
                 /\ pc' = "loop"
                 /\ hist' = [hist EXCEPT !.cur.input = "missing"]
            [] file = "unreadable" ->
                 /\ books' = <<>>
                 /\ pc' = "raised"
                 /\ hist' = [hist EXCEPT !.cur.input = "unreadable",
                                          !.cur.raised = "read_text",
                                          !.cur.exit = "traceback"]
    /\ idx' = 0
    /\ UNCHANGED <<call, ret, log, disk, state>>

\* one pass of "for book in books.values(): process_book(book, state, ...)".
\* import_to_devonthink writes the file (True), catches the failure of
\* write_text (False), or raises from mkdir, which is outside its try.
ProcessBook ==
    /\ pc = "loop"
    /\ idx < Len(books)
    /\ LET n == idx + 1
           r == generate_markdown(books[n], ExistingIds(state))
       IN  IF r.markdown.is_none
           THEN /\ idx' = n
                /\ hist' = [hist EXCEPT
                              !.cur.last = [outcome |-> "suppressed",
                                            before |-> state]]
                /\ UNCHANGED <<state, pc>>
           ELSE \E outcome \in {"written", "failed", "mkdir_raises"} :
                  LET h == [hist EXCEPT
                              !.cur.rendered = @ \cup {n},
                              !.cur.last = [outcome |-> outcome,
                                            before |-> state]]
                      doc == [book |-> n, markdown |-> r.markdown]
                  IN  CASE outcome = "written" /\ state.kind = "ok" ->
                             /\ state' = [state EXCEPT
                                            !.ids = Extend(@, r.new_ids)]
                             /\ hist' = [h EXCEPT !.cur.docs = Append(@, doc)]
                             /\ idx' = n
                             /\ UNCHANGED pc
                        [] outcome = "written" /\ state.kind # "ok" ->
                             \* state["imported_ids"]: KeyError
                             /\ hist' = [h EXCEPT
                                           !.cur.docs = Append(@, doc),
                                           !.cur.raised = "state[imported_ids]",
                                           !.cur.exit = "traceback"]
                             /\ pc' = "raised"
                             /\ UNCHANGED <<state, idx>>
                        [] outcome = "failed" ->
                             /\ hist' = [h EXCEPT !.cur.failed = @ \cup {n}]
                             /\ idx' = n
                             /\ UNCHANGED <<state, pc>>
                        [] outcome = "mkdir_raises" ->
                             /\ hist' = [h EXCEPT !.cur.raised = "mkdir",
                                                  !.cur.exit = "traceback"]
                             /\ pc' = "raised"
                             /\ UNCHANGED <<state, idx>>
    /\ UNCHANGED <<call, ret, log, disk, books>>

\* save_state(state) and return 0, after the loop
SaveState ==
    /\ pc = "loop"
    /\ idx = Len(books)
    /\ disk' = save_state(state)
    /\ pc' = "done"
    /\ hist' = [hist EXCEPT !.cur.saves = @ + 1, !.cur.exit = "0"]
    /\ UNCHANGED <<call, ret, log, state, books, idx>>

\* the process has ended; the script is started again on the same log
NextRun ==
    /\ Ended
    /\ pc' = "start"
    /\ state' = NoState
    /\ books' = <<>>
    /\ idx' = 0
    /\ hist' = [cur |-> NoRun, prev |-> hist.cur]
    /\ UNCHANGED <<call, ret, log, disk>>

----------------------------------------------------------------------------
(* Specification Spec: runs of main() on one log *)

\* the highlight x of page 1 in book A, the same highlight in book B, a
\* second highlight of book A, and a record without the leading marker
MainEntrySet ==
    {Entry(<<"A">>, MetaLine(1, None, None, None, FALSE), <<"x">>),
     Entry(<<"B">>, MetaLine(1, None, None, None, FALSE), <<"x">>),
     Entry(<<"A">>, MetaLine(2, None, None, None, FALSE), <<"y">>),
     Entry(<<"A">>, NoDashLine, <<"x">>)}

StateFiles ==
    {[kind |-> k, ids |-> <<>>] :
        k \in {"missing", "corrupt", "undecodable", "nokey", "notdict", "ok"}}
    \cup {[kind |-> "ok", ids |-> <<HighlightId(<<"x">>, 1, None)>>],
          [kind |-> "ok", ids |-> <<ForeignId>>]}

Init ==
    /\ log \in SeqsUpTo(MainEntrySet, MaxEntries)
    /\ disk \in StateFiles
    /\ state = NoState
    /\ books = <<>>
    /\ idx = 0
    /\ pc = "start"
    /\ hist = [cur |-> NoRun, prev |-> NoRun]
    /\ call = <<>>
    /\ ret = NotCalled

Next ==
    \/ FindClippings
    \/ LoadState
    \/ ParseClippings
    \/ ProcessBook
    \/ SaveState
    \/ NextRun

Spec == Init /\ [][Next]_vars

----------------------------------------------------------------------------
(* Claims on the pure functions *)

Count(seq, x) == Cardinality({i \in DOMAIN seq : seq[i] = x})

SameTriple(f, g) ==
    f.text = g.text /\ f.page = g.page /\ f.location_start = g.location_start

\* C7: two highlights with the same (text, page, location_start) get the same
\* id whatever their location_end, date and is_note, and two highlights whose
\* triples differ in at least one field hand different serializations to the
\* hash.
C7_IdentitySeparatesTriples ==
    ret.done =>
        /\ SameTriple(call.a, call.b) =>
               ret.val.a.highlight_id = ret.val.b.highlight_id
        /\ ~SameTriple(call.a, call.b) =>
               ret.val.content_a # ret.val.content_b

SamePage(a, b) == a.page = b.page
SameLocation(a, b) == a.location_start = b.location_start

\* C9: in the sorted list a highlight with a page precedes every highlight
\* without one, among equal pages a highlight with a location_start precedes
\* every highlight without one, present pages and locations ascend, and
\* among highlights equal on page and location an absent date precedes
\* every present date.
C9_SortOrder ==
    ret.done =>
        \A i, j \in DOMAIN ret.val :
            i < j =>
                LET a == ret.val[i]
                    b == ret.val[j]
                IN  /\ ~(a.page = None /\ b.page # None)
                    /\ (a.page # None /\ b.page # None) => a.page <= b.page
                    /\ SamePage(a, b) =>
                          /\ ~(a.location_start = None /\ b.location_start # None)
                          /\ (a.location_start # None /\ b.location_start # None)
                                => a.location_start <= b.location_start
                    /\ (SamePage(a, b) /\ SameLocation(a, b)) =>
                          ~(a.date_added # None /\ b.date_added = None)

BookIds(book) == {book.highlights[i].highlight_id : i \in DOMAIN book.highlights}

\* C2: generate_markdown returns no document and no new ids exactly when no
\* highlight of the book has an id outside existing_ids and existing_ids is
\* not empty; otherwise the document has one entry for every highlight of
\* the book and new_ids are exactly the ids of the book's highlights that are
\* not in existing_ids.
C2_SuppressionRule ==
    ret.done =>
        LET hs == call.book.highlights
            ex == call.existing_ids
            nothing_new == BookIds(call.book) \subseteq ex /\ ex # {}
            md == ret.val.markdown
        IN  /\ md.is_none <=> nothing_new
            /\ md.is_none => ret.val.new_ids = <<>>
            /\ ~md.is_none =>
                  /\ Len(md.entries) = Len(hs)
                  /\ \A i \in DOMAIN hs :
                        Count(md.entries, EntryLine(hs[i])) =
                            Cardinality({k \in DOMAIN hs :
                                            EntryLine(hs[k]) = EntryLine(hs[i])})
                  /\ Range(ret.val.new_ids) = BookIds(call.book) \ ex
                  /\ Len(ret.val.new_ids) =
                        Cardinality({k \in DOMAIN hs : hs[k].highlight_id \notin ex})

\* a book rendered in full although only part of its highlights is new
C2_Witness ==
    /\ ret.done
    /\ ~ret.val.markdown.is_none
    /\ call.existing_ids # {}
    /\ Len(ret.val.new_ids) > 0
    /\ Len(ret.val.new_ids) < Len(call.book.highlights)
    /\ Len(ret.val.markdown.entries) = Len(call.book.highlights)

\* the rejections the record parser makes: fewer than 3 lines, a metadata
\* line without the leading "-", an empty body
Rejected(e) ==
    \/ e.nlines < 3
    \/ ~e.meta.dash
    \/ e.nlines = 3
    \/ Strip(e.body) = <<>>

ParsedPair(e) == parse_title_author(Strip(e.header))

ParsedHighlight(e) ==
    Highlight(Strip(e.body), e.meta.page, e.meta.location_start,
              e.meta.location_end, e.meta.date, e.meta.is_note)

\* the highlights of the accepted entries with this (title, author), in
\* arrival order
RECURSIVE HighlightsOf(_, _, _)
HighlightsOf(entries, pair, n) ==
    IF n = 0 THEN <<>>
    ELSE IF ~Rejected(entries[n]) /\ ParsedPair(entries[n]) = pair
    THEN Append(HighlightsOf(entries, pair, n - 1), ParsedHighlight(entries[n]))
    ELSE HighlightsOf(entries, pair, n - 1)

AcceptedPairs(entries) ==
    {ParsedPair(entries[i]) : i \in {k \in DOMAIN entries : ~Rejected(entries[k])}}

\* C10: after parsing, there is exactly one Book for every distinct parsed
\* (title, author) of the accepted records and no other Book; it holds
\* exactly the accepted highlights with that (title, author), in arrival
\* order; rejected records add no highlight and create no Book.
C10_BooksByTitleAuthor ==
    ret.done =>
        /\ Len(ret.val) = Cardinality(AcceptedPairs(call))
        /\ \A pair \in AcceptedPairs(call) :
              \E i \in DOMAIN ret.val :
                  /\ ret.val[i].title = pair.title
                  /\ ret.val[i].author = pair.author
                  /\ ret.val[i].highlights = HighlightsOf(call, pair, Len(call))

----------------------------------------------------------------------------
(* Claims on the runs of main() *)

\* the previous run read the log, wrote every document it rendered, saved
\* the state and returned 0, and this run reads the same log
RerunAfterCleanRun ==
    /\ hist.prev.exit = "0"
    /\ hist.prev.input = "ok"
    /\ hist.prev.failed = {}
    /\ hist.prev.saves = 1
    /\ hist.cur.input = "ok"

\* C1: a run on the unchanged log that starts from the state a complete run
\* with no failed write has saved renders and writes no document, does not
\* change the state it loaded, and saves a state file equal to the one it
\* loaded.
C1_IdempotentRerun ==
    RerunAfterCleanRun =>
        /\ hist.cur.rendered = {}
        /\ hist.cur.docs = <<>>
        /\ pc # "raised"
        /\ state = hist.cur.loaded
        /\ pc = "done" => (disk = hist.cur.loaded /\ idx = Len(books))

\* the second run has ended after a first run that wrote documents for a
\* log of at least two books
C1_Witness ==
    /\ RerunAfterCleanRun
    /\ pc = "done"
    /\ hist.prev.docs # <<>>
    /\ Len(books) >= 2
    /\ hist.cur.saves = 1

\* C5: no step removes an id: the ids in the state file stay in it, within
\* a run the ids of the in-memory state stay in it, load_state brings every
\* id of a readable state file into memory, and save_state writes every id
\* of the in-memory state.
C5_MonotonicGrowth ==
    [][/\ ExistingIds(disk) \subseteq ExistingIds(disk')
       /\ pc' # "start" => ExistingIds(state) \subseteq ExistingIds(state')
       /\ (pc = "load" /\ pc' = "parse") =>
             ExistingIds(disk) \subseteq ExistingIds(state')
       /\ (pc = "loop" /\ pc' = "done") =>
             ExistingIds(state) \subseteq ExistingIds(disk')]_vars

\* a run that loaded ids has recorded more and saved them all
C5_Witness ==
    /\ pc = "done"
    /\ hist.cur.loaded.ids # <<>>
    /\ hist.cur.docs # <<>>
    /\ Len(disk.ids) > Len(hist.cur.loaded.ids)
    /\ Range(hist.cur.loaded.ids) \subseteq Range(disk.ids)

\* C3: a failed write records none of the book's ids and does not stop the
\* run, which processes the remaining books and saves the state; and on the
\* next run on the same log every book whose write failed is rendered (and
\* its write attempted) again.
C3_FailedWriteIsRetried ==
    /\ hist.cur.last.outcome = "failed" =>
          (state = hist.cur.last.before /\ pc \in {"loop", "done"})
    /\ (hist.cur.failed # {} /\ Ended /\ hist.cur.raised = "none") =>
          (pc = "done" /\ hist.cur.saves = 1 /\ idx = Len(books))
    /\ (hist.prev.exit = "0" /\ hist.prev.input = "ok" /\ hist.cur.input = "ok") =>
          \A n \in hist.prev.failed : idx >= n => n \in hist.cur.rendered

\* C4: on a run that starts from an empty state and in which no write
\* fails, every book of the log gets a document with all its highlights,
\* also a book whose highlights repeat the (text, page, location_start) of
\* an earlier book's.
C4_EveryBookWrittenOnFirstRun ==
    (/\ pc = "done"
     /\ hist.cur.input = "ok"
     /\ hist.cur.loaded = EmptyState
     /\ hist.cur.failed = {}) =>
        \A n \in DOMAIN books :
            \E k \in DOMAIN hist.cur.docs :
                /\ hist.cur.docs[k].book = n
                /\ Len(hist.cur.docs[k].markdown.entries) =
                      Len(books[n].highlights)

\* C6: a run saves the state at most once, and only as the last step of a
\* run that has processed every book; a run whose input file is not found
\* or cannot be read ends with a non-zero outcome and saves nothing.
C6_PersistOnce ==
    /\ hist.cur.saves <= 1
    /\ hist.cur.saves = 1 => (pc = "done" /\ idx = Len(books))
    /\ hist.cur.input \in {"notfound", "missing", "unreadable"} =>
          /\ hist.cur.saves = 0
          /\ Ended => hist.cur.exit # "0"

\* C8: whatever the state file holds that is not a record with a list of
\* ids (nothing, undecodable bytes, invalid JSON, JSON of another shape),
\* load_state returns the empty state and no exception caused by the
\* state's content ends the run.
C8_LoadNeverFails ==
    hist.cur.loaded_from \in {"missing", "corrupt", "undecodable", "nokey", "notdict"} =>
        /\ hist.cur.raised \notin {"load_state", "state.get", "state[imported_ids]"}
        /\ pc \in {"parse", "loop", "done"} => hist.cur.loaded = EmptyState

====
